---- MODULE Spec2Model ----
(***************************************************************************)
(* Client-side workflows of the SONETRA front end.                         *)
(*                                                                         *)
(*   AudioProcessor (components/AudioProcessor.tsx): two file slots, a     *)
(*   waveform widget, the analysis request and the transition request.     *)
(*   Studio (pages/Studio.tsx): the uploaded-file list, the current        *)
(*   selection and its removal.                                            *)
(*                                                                         *)
(* Each event handler, and each continuation of an async handler after an  *)
(* await, is one action: the browser runs it to completion on the event    *)
(* loop, and React commits the batched state updates before the next       *)
(* event is dispatched, so a handler always sees the state of the latest   *)
(* render.                                                                 *)
(*                                                                         *)
(* Numbers of the analysis body are kept in thousandths (120 BPM is        *)
(* 120000), the volume in hundredths (1.0 is 100).                         *)
(*                                                                         *)
(* The waveform widget (wavesurfer.js) is not part of the repository. It   *)
(* is taken by its interface: load(url) is asynchronous and is fulfilled   *)
(* or rejected, addMarker adds a marker, playPause toggles playback and    *)
(* emits 'play' or 'pause', setVolume sets the volume. Response bodies of  *)
(* /analyze/track have the AudioAnalysis shape.                            *)
(*                                                                         *)
(* track, atPress and lastOp are history variables: no handler reads them. *)
(***************************************************************************)
EXTENDS Integers, Sequences, FiniteSets, TLC

\* ------------------------------------------------------------------ bounds

\* handleFileChange calls whose waveform load has not settled yet
MaxPendingLoads == 2
\* markers the waveform widget holds
MaxMarkers == 8
\* requests that can be outstanding at once in the model (the code has no cap)
MaxInFlight == 2
\* downloads of 'transition.wav' that are counted
MaxDownloads == 1
\* records in the Studio file list
MaxFiles == 3
\* files of one drop
MaxDrop == 2
\* requests the mock service handles
MaxServed == 2
\* Studio handleAnalyze calls that can run at once in the model
MaxSims == 2
\* slider and switch changes made on the Mastering page
MaxAdjust == 2

\* ------------------------------------------------------------------ values

\* null
None == "none"

\* null, where the value is otherwise a record
Null == [null |-> TRUE]

\* the File objects the user can pick
Files == {"test1.wav", "test2.wav"}

\* <MenuItem value=...> of the transition style Select
Styles == {"smooth", "sudden", "harmonic"}

\* positions of the volume slider (min 0, max 1, step 0.01), in hundredths
Volumes == {0, 100}

\* an environment variable that is not set
Undefined == "undefined"

\* the values of REACT_APP_BACKEND_URL: unset, set to the empty string, set to a host
Envs == {Undefined, "", "https://api.sonetra.example"}

\* an optional number: <<>> when the property is missing, <<n>> when it is n
Durations == {<<>>, <<0>>, <<4>>, <<30>>}
Intensities == {<<>>, <<0>>, <<1>>}

\* target styles of a style transfer
TargetStyles == {"jazz", "lofi"}

\* the initial value of the Mastering settings, which resetSettings restores
DefaultSettings ==
    [loudness |-> -14, dynamicRange |-> 8, stereoWidth |-> 100,
     lowEndTightness |-> 50, highEndBrightness |-> 50, midPresence |-> 50,
     compression |-> 30, limiting |-> 70, saturation |-> 15,
     stereoEnhancement |-> TRUE, multiband |-> FALSE, vintage |-> FALSE]

\* the values of the options of the Mastering preset Select
presets == {"custom", "streaming", "radio", "vinyl", "cd", "loud", "dynamic"}

\* the presetSettings table of applyPreset
presetSettings ==
    [streaming |-> [loudness |-> -14, dynamicRange |-> 8, compression |-> 40,
                    limiting |-> 80, stereoEnhancement |-> TRUE],
     radio     |-> [loudness |-> -12, dynamicRange |-> 6, compression |-> 60,
                    limiting |-> 90, stereoEnhancement |-> TRUE],
     vinyl     |-> [loudness |-> -18, dynamicRange |-> 12, compression |-> 20,
                    limiting |-> 50, vintage |-> TRUE],
     cd        |-> [loudness |-> -16, dynamicRange |-> 10, compression |-> 35,
                    limiting |-> 75, multiband |-> TRUE],
     loud      |-> [loudness |-> -10, dynamicRange |-> 4, compression |-> 70,
                    limiting |-> 95, saturation |-> 25],
     dynamic   |-> [loudness |-> -20, dynamicRange |-> 15, compression |-> 15,
                    limiting |-> 40, vintage |-> TRUE]]

\* min and max of the Mastering sliders
SliderRange ==
    [loudness          |-> [min |-> -30, max |-> -6],
     dynamicRange      |-> [min |-> 2,   max |-> 20],
     compression       |-> [min |-> 0,   max |-> 100],
     limiting          |-> [min |-> 0,   max |-> 100],
     lowEndTightness   |-> [min |-> 0,   max |-> 100],
     midPresence       |-> [min |-> 0,   max |-> 100],
     highEndBrightness |-> [min |-> 0,   max |-> 100],
     stereoWidth       |-> [min |-> 0,   max |-> 150],
     saturation        |-> [min |-> 0,   max |-> 50]]

\* the Mastering switches
Switches == {"stereoEnhancement", "multiband", "vintage"}

ErrAnalyze == "Failed to analyze audio"
ErrTransition == "Failed to create transition"

\* the body the mock analyze handler answers with
MockAnalysis ==
    [beats |-> <<500, 1000, 1500, 2000>>, key |-> "C", scale |-> "major",
     tempo |-> 120000, energy |-> 800, spectral_centroid |-> 2000000]

\* another body of the AudioAnalysis shape, as a live backend could send
OtherAnalysis ==
    [beats |-> <<>>, key |-> "A", scale |-> "minor",
     tempo |-> 128460, energy |-> 314, spectral_centroid |-> 1523117]

\* response bodies of a 200 answer of /analyze/track
Bodies == {MockAnalysis, OtherAnalysis}

\* the File objects dropped on the Studio page (size in bytes)
DropFiles == {[name |-> "song.mp3", size |-> 131072],
              [name |-> "beat.wav", size |-> 5242880]}

\* values of Math.random(), in quarters: 0, 0.25, 0.5
Randoms == {0, 1, 2}

\* ------------------------------------------------------------------ state

VARIABLES
    mounted,          \* the component is mounted
    file1, file2,     \* useState<File | null>
    analysis,         \* useState<AudioAnalysis | null>
    transitionStyle,  \* useState('smooth')
    loading,          \* useState(false)
    error,            \* useState<string | null>
    isPlaying,        \* useState(false)
    volume,           \* useState(1)
    wsDestroyed,      \* wavesurfer.current.destroy() has run
    wsPlaying,        \* the widget is playing
    wsVolume,         \* the widget's volume
    wsMarkers,        \* the widget's markers, in the order they were added
    pendingLoads,     \* handleFileChange calls suspended at `await load(url)`
    requests,         \* handleAnalyze / handleCreateTransition calls suspended at an await
    downloads,        \* clicks on the generated 'transition.wav' link
    track,            \* history is recorded (constant along a behaviour)
    atPress,          \* history: the render scope the last pressed handler closed over
    audioFiles,       \* Studio: useState<AudioFile[]>([])
    currentFile,      \* Studio: useState<AudioFile | null>(null)
    studioIsPlaying,  \* Studio: useState(false), isPlaying
    lastOp,           \* history: the last Studio handler that ran and its arguments
    backendUrl,       \* process.env.REACT_APP_BACKEND_URL when api.ts is loaded
    apiCall,          \* the last call of a function of api.ts and the request it posted
    mockReply,        \* the last request the mock service handled and its response
    served,           \* the number of requests the mock service has handled
    lastPick,         \* history: the file selected last for each slot
    analysisFor,      \* history: the file whose analysis response was stored last
    lateCalls,        \* history: the widget methods called after destroy()
    isProcessing,     \* Studio: useState(false)
    uploadProgress,   \* Studio: useState(0)
    sims,             \* Studio: handleAnalyze calls suspended at their timer, with their i
    masterSettings,   \* Mastering: useState<MasteringSettings>({...}), settings
    selectedPreset,   \* Mastering: useState('custom')
    adjusted          \* Mastering: the number of slider and switch changes so far

vars == <<mounted, file1, file2, analysis, transitionStyle, loading, error,
          isPlaying, volume, wsDestroyed, wsPlaying, wsVolume, wsMarkers,
          pendingLoads, requests, downloads, track, atPress,
          audioFiles, currentFile, studioIsPlaying, lastOp,
          backendUrl, apiCall, mockReply, served,
          lastPick, analysisFor, lateCalls,
          isProcessing, uploadProgress, sims,
          masterSettings, selectedPreset, adjusted>>

\* the state of the AudioProcessor component and its widget
processor == <<mounted, file1, file2, analysis, transitionStyle, loading, error,
               isPlaying, volume, wsDestroyed, wsPlaying, wsVolume, wsMarkers,
               pendingLoads, requests, downloads, track, atPress>>

\* the state of the Studio page
studio == <<audioFiles, currentFile, studioIsPlaying, lastOp>>

\* the state of the api module and of the mock service
services == <<backendUrl, apiCall, mockReply, served>>

\* the history variables of the AudioProcessor component. Each is a record
\* whose field `on` says whether it is recorded (constant along a behaviour).
history == <<lastPick, analysisFor, lateCalls>>

\* the simulated analysis of the Studio page
simulation == <<isProcessing, uploadProgress, sims>>

\* the state of the Mastering page
mastering == <<masterSettings, selectedPreset, adjusted>>

reactState == <<file1, file2, analysis, transitionStyle, loading, error,
                isPlaying, volume>>

widget == <<wsDestroyed, wsPlaying, wsVolume, wsMarkers>>

\* ------------------------------------------------------------------ helpers

RemoveAt(s, i) == SubSeq(s, 1, i - 1) \o SubSeq(s, i + 1, Len(s))

RECURSIVE Pow10(_)
Pow10(d) == IF d = 0 THEN 1 ELSE 10 * Pow10(d - 1)

\* the d low decimal digits of n, leading zeros kept
RECURSIVE FractionDigits(_, _)
FractionDigits(n, d) ==
    IF d = 0 THEN "" ELSE FractionDigits(n \div 10, d - 1) \o ToString(n % 10)

\* the exponent e of the positive number num / den: 2^e <= num / den < 2^(e+1)
RECURSIVE Log2Floor(_, _)
Log2Floor(num, den) ==
    IF num < den THEN Log2Floor(2 * num, den) - 1
    ELSE IF num \div den >= 2 THEN Log2Floor(num \div 2, den) + 1
    ELSE 0

\* k binary digits of the fraction r / den (r < den): the last digit and what
\* is left over, <<bit, remainder>>; nothing is left over once r is 0
RECURSIVE BinaryDigits(_, _, _, _)
BinaryDigits(r, den, k, bit) ==
    IF k = 0 \/ r = 0 THEN <<bit, r>>
    ELSE BinaryDigits((2 * r) % den, den, k - 1, (2 * r) \div den)

\* the IEEE 754 double nearest to a number below 2^31 keeps 52 binary digits
\* after the leading one
MantissaBits == 52

\* where the double nearest to num / den (round to nearest, ties to even) lies:
\* -1 below num / den, 0 on it, 1 above it. The number is a Number literal of a
\* JSON body (den = 1000) or a quotient the code computes (file.size / 2^20).
DoubleError(num, den) ==
    IF num % den = 0 THEN 0
    ELSE LET k    == MantissaBits - Log2Floor(num, den)
             last == BinaryDigits(num % den, den, k, (num \div den) % 2)
             bit  == last[1]
             r    == last[2]
         IN  IF r = 0 THEN 0
             ELSE IF 2 * r < den THEN -1
             ELSE IF 2 * r > den THEN 1
             ELSE IF bit = 0 THEN -1 ELSE 1

\* n written with d decimals, without a point when d = 0
FixedString(n, d) ==
    IF d = 0 THEN ToString(n)
    ELSE ToString(n \div Pow10(d)) \o "." \o FractionDigits(n % Pow10(d), d)

\* mutant: the digits after the d-th decimal are cut off instead of rounded
toFixedTruncates(num, den, d) ==
    FixedString((num * Pow10(d)) \div den, d)

\* Number.prototype.toFixed(d) of the double nearest to the non-negative number
\* num / den: the integer n with n / 10^d nearest to the double (the larger one
\* when the double is halfway), written with d decimals. A number halfway in
\* decimal goes down when its double lies below it.
toFixed(num, den, d) ==
    LET scaled == 2 * num * Pow10(d)
        halfUp == (scaled + den) \div (2 * den)
        tie    == (scaled + den) % (2 * den) = 0
        n      == IF tie /\ DoubleError(num, den) < 0 THEN halfUp - 1 ELSE halfUp
    IN  FixedString(n, d)

\* the render scope a handler closes over
Scope ==
    [file1 |-> file1, file2 |-> file2, analysis |-> analysis,
     transitionStyle |-> transitionStyle, volume |-> volume,
     markers |-> wsMarkers]

\* the process environment without REACT_APP_BACKEND_URL, api.ts loaded and no
\* function of it called yet, the mock service started
InitServices ==
    /\ backendUrl = Undefined
    /\ apiCall = Null
    /\ mockReply = Null
    /\ served = 0

\* the state after the first render and the mount effect, the file slots apart
InitOther ==
    /\ mounted = TRUE
    /\ analysis = Null
    /\ transitionStyle = "smooth"
    /\ loading = FALSE
    /\ error = None
    /\ isPlaying = FALSE
    /\ volume = 100
    /\ wsDestroyed = FALSE
    /\ wsPlaying = FALSE
    /\ wsVolume = 100
    /\ wsMarkers = <<>>
    /\ pendingLoads = <<>>
    /\ requests = <<>>
    /\ downloads = 0
    /\ atPress = Null
    /\ audioFiles = <<>>
    /\ currentFile = Null
    /\ studioIsPlaying = FALSE
    /\ lastOp = [op |-> "none"]
    /\ isProcessing = FALSE
    /\ uploadProgress = 0
    /\ sims = <<>>
    /\ masterSettings = DefaultSettings
    /\ selectedPreset = "custom"
    /\ adjusted = 0

\* no history of the AudioProcessor component is recorded
HistoryOff ==
    /\ track = FALSE
    /\ lastPick = [on |-> FALSE, first |-> None, second |-> None]
    /\ analysisFor = [on |-> FALSE, file |-> None]
    /\ lateCalls = [on |-> FALSE, methods |-> {}]

\* the state after the first render and the mount effect
InitComponent ==
    /\ file1 = None
    /\ file2 = None
    /\ InitOther

Init == InitComponent /\ InitServices /\ HistoryOff

\* ------------------------------------------------------------------ file slots

\* onChange of a file input: handleFileChange(file, isFirst) up to its await.
\* An empty selection (null) returns at once.
handleFileChange(file, isFirst) ==
    /\ mounted
    /\ IF file # None
         THEN /\ Len(pendingLoads) < MaxPendingLoads
              /\ pendingLoads' = Append(pendingLoads, [file |-> file, isFirst |-> isFirst])
         ELSE UNCHANGED pendingLoads
    /\ lastPick' = IF lastPick.on /\ file # None
                     THEN IF isFirst
                            THEN [lastPick EXCEPT !.first = file]
                            ELSE [lastPick EXCEPT !.second = file]
                     ELSE lastPick
    /\ UNCHANGED <<mounted, reactState, widget, requests, downloads, track, atPress,
                   studio, services, analysisFor, lateCalls, simulation, mastering>>

\* mutant: the file is stored in its slot however the load settles
FileLoadSettledStoresAnyway(i, ok) ==
    /\ i \in 1..Len(pendingLoads)
    /\ pendingLoads' = RemoveAt(pendingLoads, i)
    /\ IF mounted
         THEN IF pendingLoads[i].isFirst
                THEN file1' = pendingLoads[i].file /\ UNCHANGED file2
                ELSE file2' = pendingLoads[i].file /\ UNCHANGED file1
         ELSE UNCHANGED <<file1, file2>>
    /\ UNCHANGED <<mounted, analysis, transitionStyle, loading, error, isPlaying,
                   volume, widget, requests, downloads, track, atPress, studio, services,
                   history, simulation, mastering>>

\* The i-th pending wavesurfer.load(url) settles. Fulfilled: the handler goes on
\* and stores the file in its slot. Rejected: the handler ends there.
FileLoadSettled(i, ok) ==
    /\ i \in 1..Len(pendingLoads)
    /\ pendingLoads' = RemoveAt(pendingLoads, i)
    /\ IF ok /\ mounted
         THEN IF pendingLoads[i].isFirst
                THEN file1' = pendingLoads[i].file /\ UNCHANGED file2
                ELSE file2' = pendingLoads[i].file /\ UNCHANGED file1
         ELSE UNCHANGED <<file1, file2>>
    /\ UNCHANGED <<mounted, analysis, transitionStyle, loading, error, isPlaying,
                   volume, widget, requests, downloads, track, atPress, studio, services,
                   history, simulation, mastering>>

\* ------------------------------------------------------------------ controls

\* IconButton onClick; the widget's 'play' / 'pause' event sets isPlaying
togglePlayPause ==
    /\ mounted
    /\ wsPlaying' = ~wsPlaying
    /\ isPlaying' = ~wsPlaying
    /\ UNCHANGED <<mounted, file1, file2, analysis, transitionStyle, loading, error,
                   volume, wsDestroyed, wsVolume, wsMarkers, pendingLoads, requests,
                   downloads, track, atPress, studio, services,
                   history, simulation, mastering>>

\* Slider onChange, and the effect on [volume] that follows the render
handleVolumeChange(newValue) ==
    /\ mounted
    /\ newValue # volume
    /\ volume' = newValue
    /\ wsVolume' = newValue
    /\ UNCHANGED <<mounted, file1, file2, analysis, transitionStyle, loading, error,
                   isPlaying, wsDestroyed, wsPlaying, wsMarkers, pendingLoads,
                   requests, downloads, track, atPress, studio, services,
                   history, simulation, mastering>>

\* mutant: the Select is disabled while a request is in flight
setTransitionStyleWhenIdle(value) ==
    /\ mounted
    /\ ~loading
    /\ value # transitionStyle
    /\ transitionStyle' = value
    /\ UNCHANGED <<mounted, file1, file2, analysis, loading, error, isPlaying, volume,
                   widget, pendingLoads, requests, downloads, track, atPress, studio, services,
                   history, simulation, mastering>>

\* Select onChange
setTransitionStyle(value) ==
    /\ mounted
    /\ value # transitionStyle
    /\ transitionStyle' = value
    /\ UNCHANGED <<mounted, file1, file2, analysis, loading, error, isPlaying, volume,
                   widget, pendingLoads, requests, downloads, track, atPress, studio, services,
                   history, simulation, mastering>>

\* ------------------------------------------------------------------ analysis

\* the address handleAnalyze posts to: 'http://localhost:8000/analyze/track'
AnalyzeUrl == [host |-> "http://localhost:8000", path |-> "/analyze/track"]

\* the address handleCreateTransition posts to:
\* 'http://localhost:8000/transition/create'
TransitionUrl == [host |-> "http://localhost:8000", path |-> "/transition/create"]

\* mutant: the Analyze Track button ignores the loading flag
AnalyzeDisabledIgnoresLoading == file1 = None

\* disabled={!file1 || loading}
AnalyzeDisabled == file1 = None \/ loading

\* mutant: handleAnalyze clears the stored analysis before it posts
handleAnalyzeClearsAnalysis ==
    /\ file1 # None
    /\ Len(requests) < MaxInFlight
    /\ loading' = TRUE
    /\ error' = None
    /\ analysis' = Null
    /\ requests' = Append(requests,
           [kind |-> "analyze", phase |-> "request", file1 |-> file1,
            file2 |-> None, style |-> None, url |-> AnalyzeUrl, posts |-> 1])
    /\ atPress' = IF track THEN Scope ELSE Null
    /\ UNCHANGED <<mounted, file1, file2, transitionStyle, isPlaying,
                   volume, widget, pendingLoads, downloads, track, studio, services,
                   history, simulation, mastering>>

\* handleAnalyze up to `await axios.post(...)`
handleAnalyze ==
    /\ file1 # None
    /\ Len(requests) < MaxInFlight
    /\ loading' = TRUE
    /\ error' = None
    /\ requests' = Append(requests,
           [kind |-> "analyze", phase |-> "request", file1 |-> file1,
            file2 |-> None, style |-> None, url |-> AnalyzeUrl, posts |-> 1])
    /\ atPress' = IF track THEN Scope ELSE Null
    /\ UNCHANGED <<mounted, file1, file2, analysis, transitionStyle, isPlaying,
                   volume, widget, pendingLoads, downloads, track, studio, services,
                   history, simulation, mastering>>

\* a click on the Analyze Track button
AnalyzeClick ==
    /\ mounted
    /\ ~AnalyzeDisabled
    /\ handleAnalyze

\* the markers after beats.forEach(addMarker)
AddMarkers(markers, beats) == markers \o beats

\* the analysis request is answered 2xx with `body`: try block after the await, finally
AnalyzeFulfilled(i, body) ==
    /\ i \in 1..Len(requests)
    /\ requests[i].kind = "analyze"
    /\ Len(wsMarkers) + Len(body.beats) <= MaxMarkers
    /\ requests' = RemoveAt(requests, i)
    /\ wsMarkers' = AddMarkers(wsMarkers, body.beats)
    /\ IF mounted
         THEN analysis' = body /\ loading' = FALSE
         ELSE UNCHANGED <<analysis, loading>>
    /\ atPress' = Null
    /\ analysisFor' = IF analysisFor.on /\ mounted
                        THEN [analysisFor EXCEPT !.file = requests[i].file1]
                        ELSE analysisFor
    /\ lateCalls' = IF lateCalls.on /\ wsDestroyed /\ body.beats # <<>>
                      THEN [lateCalls EXCEPT !.methods = @ \cup {"addMarker"}]
                      ELSE lateCalls
    /\ UNCHANGED <<mounted, file1, file2, transitionStyle, error, isPlaying, volume,
                   wsDestroyed, wsPlaying, wsVolume, pendingLoads, downloads, track,
                   studio, services, lastPick, simulation, mastering>>

\* mutant: the catch block of handleAnalyze reports the other workflow's message
AnalyzeRejectedWrongMessage(i) ==
    /\ i \in 1..Len(requests)
    /\ requests[i].kind = "analyze"
    /\ requests' = RemoveAt(requests, i)
    /\ IF mounted
         THEN error' = ErrTransition /\ loading' = FALSE
         ELSE UNCHANGED <<error, loading>>
    /\ atPress' = Null
    /\ UNCHANGED <<mounted, file1, file2, analysis, transitionStyle, isPlaying,
                   volume, widget, pendingLoads, downloads, track, studio, services,
                   history, simulation, mastering>>

\* mutant: the catch block of handleAnalyze also clears the stored analysis
AnalyzeRejectedClearsAnalysis(i) ==
    /\ i \in 1..Len(requests)
    /\ requests[i].kind = "analyze"
    /\ requests' = RemoveAt(requests, i)
    /\ IF mounted
         THEN error' = ErrAnalyze /\ loading' = FALSE /\ analysis' = Null
         ELSE UNCHANGED <<error, loading, analysis>>
    /\ atPress' = Null
    /\ UNCHANGED <<mounted, file1, file2, transitionStyle, isPlaying,
                   volume, widget, pendingLoads, downloads, track, studio, services,
                   history, simulation, mastering>>

\* the analysis request fails (transport error or non-2xx status): catch, finally
AnalyzeRejected(i) ==
    /\ i \in 1..Len(requests)
    /\ requests[i].kind = "analyze"
    /\ requests' = RemoveAt(requests, i)
    /\ IF mounted
         THEN error' = ErrAnalyze /\ loading' = FALSE
         ELSE UNCHANGED <<error, loading>>
    /\ atPress' = Null
    /\ UNCHANGED <<mounted, file1, file2, analysis, transitionStyle, isPlaying,
                   volume, widget, pendingLoads, downloads, track, studio, services,
                   history, simulation, mastering>>

\* ------------------------------------------------------------------ transition

\* mutant: the Create Transition button ignores the loading flag
TransitionDisabledIgnoresLoading == file1 = None \/ file2 = None

\* disabled={!file1 || !file2 || loading}
TransitionDisabled == file1 = None \/ file2 = None \/ loading

\* mutant: the handler appends the style of the first render, 'smooth'
handleCreateTransitionStaleStyle ==
    /\ file1 # None /\ file2 # None
    /\ Len(requests) < MaxInFlight
    /\ downloads < MaxDownloads
    /\ loading' = TRUE
    /\ error' = None
    /\ requests' = Append(requests,
           [kind |-> "transition", phase |-> "request", file1 |-> file1,
            file2 |-> file2, style |-> "smooth", url |-> TransitionUrl,
            posts |-> 1])
    /\ atPress' = IF track THEN Scope ELSE Null
    /\ UNCHANGED <<mounted, file1, file2, analysis, transitionStyle, isPlaying,
                   volume, widget, pendingLoads, downloads, track, studio, services,
                   history, simulation, mastering>>

\* handleCreateTransition up to `await axios.post(...)`
handleCreateTransition ==
    /\ file1 # None /\ file2 # None
    /\ Len(requests) < MaxInFlight
    /\ downloads < MaxDownloads
    /\ loading' = TRUE
    /\ error' = None
    /\ requests' = Append(requests,
           [kind |-> "transition", phase |-> "request", file1 |-> file1,
            file2 |-> file2, style |-> transitionStyle, url |-> TransitionUrl,
            posts |-> 1])
    /\ atPress' = IF track THEN Scope ELSE Null
    /\ UNCHANGED <<mounted, file1, file2, analysis, transitionStyle, isPlaying,
                   volume, widget, pendingLoads, downloads, track, studio, services,
                   history, simulation, mastering>>

\* mutant: the button guard and the early return test file1 only, as the
\* Analyze Track button and handleAnalyze do
TransitionClickTestsFile1Only ==
    /\ mounted
    /\ ~(file1 = None \/ loading)
    /\ file1 # None
    /\ Len(requests) < MaxInFlight
    /\ downloads < MaxDownloads
    /\ loading' = TRUE
    /\ error' = None
    /\ requests' = Append(requests,
           [kind |-> "transition", phase |-> "request", file1 |-> file1,
            file2 |-> file2, style |-> transitionStyle, url |-> TransitionUrl,
            posts |-> 1])
    /\ atPress' = IF track THEN Scope ELSE Null
    /\ UNCHANGED <<mounted, file1, file2, analysis, transitionStyle, isPlaying,
                   volume, widget, pendingLoads, downloads, track, studio, services,
                   history, simulation, mastering>>

\* a click on the Create Transition button
TransitionClick ==
    /\ mounted
    /\ ~TransitionDisabled
    /\ handleCreateTransition

\* the transition request is answered 2xx with a blob: the handler goes on to
\* `await wavesurfer.current.load(url)` (wavesurfer.current is never reset to null)
TransitionFulfilled(i) ==
    /\ i \in 1..Len(requests)
    /\ requests[i].kind = "transition"
    /\ requests[i].phase = "request"
    /\ requests' = [requests EXCEPT ![i].phase = "load"]
    /\ lateCalls' = IF lateCalls.on /\ wsDestroyed
                      THEN [lateCalls EXCEPT !.methods = @ \cup {"load"}]
                      ELSE lateCalls
    /\ UNCHANGED <<mounted, reactState, widget, pendingLoads, downloads, track, atPress,
                   studio, services, lastPick, analysisFor, simulation, mastering>>

\* mutant: the catch block posts the request once more before it gives up
TransitionRejectedRetries(i) ==
    /\ i \in 1..Len(requests)
    /\ requests[i].kind = "transition"
    /\ requests[i].phase = "request"
    /\ IF requests[i].posts = 1
         THEN /\ requests' = [requests EXCEPT ![i].posts = 2]
              /\ UNCHANGED <<error, loading, atPress>>
         ELSE /\ requests' = RemoveAt(requests, i)
              /\ IF mounted
                   THEN error' = ErrTransition /\ loading' = FALSE
                   ELSE UNCHANGED <<error, loading>>
              /\ atPress' = Null
    /\ UNCHANGED <<mounted, file1, file2, analysis, transitionStyle, isPlaying,
                   volume, widget, pendingLoads, downloads, track, studio, services,
                   history, simulation, mastering>>

\* the transition request fails: catch, finally
TransitionRejected(i) ==
    /\ i \in 1..Len(requests)
    /\ requests[i].kind = "transition"
    /\ requests[i].phase = "request"
    /\ requests' = RemoveAt(requests, i)
    /\ IF mounted
         THEN error' = ErrTransition /\ loading' = FALSE
         ELSE UNCHANGED <<error, loading>>
    /\ atPress' = Null
    /\ UNCHANGED <<mounted, file1, file2, analysis, transitionStyle, isPlaying,
                   volume, widget, pendingLoads, downloads, track, studio, services,
                   history, simulation, mastering>>

\* mutant: setLoading(false) is the last statement of the try block instead of
\* the finally block
TransitionLoadSettledNoFinally(i, ok) ==
    /\ i \in 1..Len(requests)
    /\ requests[i].kind = "transition"
    /\ requests[i].phase = "load"
    /\ requests' = RemoveAt(requests, i)
    /\ downloads' = IF ok THEN downloads + 1 ELSE downloads
    /\ IF mounted
         THEN /\ error' = IF ok THEN error ELSE ErrTransition
              /\ loading' = IF ok THEN FALSE ELSE loading
         ELSE UNCHANGED <<error, loading>>
    /\ atPress' = Null
    /\ UNCHANGED <<mounted, file1, file2, analysis, transitionStyle, isPlaying,
                   volume, widget, pendingLoads, track, studio, services,
                   history, simulation, mastering>>

\* the load of the transition blob settles. Fulfilled: the download link is
\* clicked. Rejected: catch. Then finally.
TransitionLoadSettled(i, ok) ==
    /\ i \in 1..Len(requests)
    /\ requests[i].kind = "transition"
    /\ requests[i].phase = "load"
    /\ requests' = RemoveAt(requests, i)
    /\ downloads' = IF ok THEN downloads + 1 ELSE downloads
    /\ IF mounted
         THEN /\ error' = IF ok THEN error ELSE ErrTransition
              /\ loading' = FALSE
         ELSE UNCHANGED <<error, loading>>
    /\ atPress' = Null
    /\ UNCHANGED <<mounted, file1, file2, analysis, transitionStyle, isPlaying,
                   volume, widget, pendingLoads, track, studio, services,
                   history, simulation, mastering>>

\* ------------------------------------------------------------------ render

\* {error && <Typography color="error">{error}</Typography>}
DisplayedError == error

\* the Typography lines of the Analysis Results box for the analysis `a`
AnalysisFields(a) ==
    IF a = Null THEN <<>>
    ELSE <<"Key: " \o a.key \o " " \o a.scale,
           "Tempo: " \o toFixed(a.tempo, 1000, 1) \o " BPM",
           "Energy: " \o toFixed(a.energy, 1000, 2),
           "Spectral Centroid: " \o toFixed(a.spectral_centroid, 1000, 2) \o " Hz">>

\* {analysis && <Box>...</Box>}
DisplayedAnalysis == AnalysisFields(analysis)

\* ------------------------------------------------------------------ Studio

\* the digits of Number.prototype.toString(36)
Digits36 == <<"0", "1", "2", "3", "4", "5", "6", "7", "8", "9", "a", "b", "c",
              "d", "e", "f", "g", "h", "i", "j", "k", "l", "m", "n", "o", "p",
              "q", "r", "s", "t", "u", "v", "w", "x", "y", "z">>

\* (q / 4).toString(36) for q in 0..3, as its sequence of characters:
\* "0" for 0, else "0." and the single base-36 digit 9 * q
toString36(q) ==
    IF q = 0 THEN <<"0">> ELSE <<"0", ".", Digits36[9 * q + 1]>>

\* String.prototype.substr(start, length) on a sequence of characters
substr(str, start, length) ==
    SubSeq(str, start + 1, IF start + length < Len(str) THEN start + length ELSE Len(str))

\* Math.random().toString(36).substr(2, 9), for the random value q / 4
NewId(q) == substr(toString36(q), 2, 9)

\* the AudioFile record onDrop builds for `file`
NewAudioFile(file, q) ==
    [id |-> NewId(q), file |-> file, name |-> file.name,
     size |-> toFixed(file.size, 1024 * 1024, 2) \o " MB"]

\* mutant: each record is put in front of the list, [audioFile, ...prev]
RECURSIVE PrependAll(_, _, _)
PrependAll(list, acceptedFiles, randoms) ==
    IF acceptedFiles = <<>> THEN list
    ELSE PrependAll(<<NewAudioFile(Head(acceptedFiles), Head(randoms))>> \o list,
                    Tail(acceptedFiles), Tail(randoms))

\* the list after acceptedFiles.forEach(... setAudioFiles(prev => [...prev, audioFile]))
RECURSIVE AppendAll(_, _, _)
AppendAll(list, acceptedFiles, randoms) ==
    IF acceptedFiles = <<>> THEN list
    ELSE AppendAll(Append(list, NewAudioFile(Head(acceptedFiles), Head(randoms))),
                   Tail(acceptedFiles), Tail(randoms))

\* onDrop(acceptedFiles); randoms[k] is what Math.random() returns for the k-th file
onDrop(acceptedFiles, randoms) ==
    /\ Len(randoms) = Len(acceptedFiles)
    /\ Len(audioFiles) + Len(acceptedFiles) <= MaxFiles
    /\ audioFiles' = AppendAll(audioFiles, acceptedFiles, randoms)
    /\ lastOp' = [op |-> "onDrop", files |-> acceptedFiles, before |-> audioFiles]
    /\ UNCHANGED <<processor, services,
                   history, simulation, mastering, currentFile, studioIsPlaying>>

\* prev.filter((file) => file.id !== id)
FilterOut(list, id) ==
    LET keep(r) == r.id # id IN SelectSeq(list, keep)

\* mutant: removeFile clears the selection but leaves isPlaying as it is
removeFileKeepsPlaying(id) ==
    /\ audioFiles' = FilterOut(audioFiles, id)
    /\ IF currentFile # Null /\ currentFile.id = id
         THEN currentFile' = Null /\ UNCHANGED studioIsPlaying
         ELSE UNCHANGED <<currentFile, studioIsPlaying>>
    /\ lastOp' = [op |-> "removeFile", id |-> id, before |-> audioFiles,
                  current |-> currentFile, playing |-> studioIsPlaying]
    /\ UNCHANGED <<processor, services, history, simulation, mastering>>

\* mutant: removeFile only filters the list
removeFileKeepsSelection(id) ==
    /\ audioFiles' = FilterOut(audioFiles, id)
    /\ UNCHANGED <<currentFile, studioIsPlaying>>
    /\ lastOp' = [op |-> "removeFile", id |-> id, before |-> audioFiles,
                  current |-> currentFile, playing |-> studioIsPlaying]
    /\ UNCHANGED <<processor, services, history, simulation, mastering>>

\* removeFile(id)
removeFile(id) ==
    /\ audioFiles' = FilterOut(audioFiles, id)
    /\ IF currentFile # Null /\ currentFile.id = id
         THEN currentFile' = Null /\ studioIsPlaying' = FALSE
         ELSE UNCHANGED <<currentFile, studioIsPlaying>>
    /\ lastOp' = [op |-> "removeFile", id |-> id, before |-> audioFiles,
                  current |-> currentFile, playing |-> studioIsPlaying]
    /\ UNCHANGED <<processor, services, history, simulation, mastering>>

\* a click on the trash button of row i
RemoveClick(i) ==
    /\ i \in 1..Len(audioFiles)
    /\ removeFile(audioFiles[i].id)

\* a click on row i
RowClick(i) ==
    /\ i \in 1..Len(audioFiles)
    /\ currentFile' = audioFiles[i]
    /\ lastOp' = [op |-> "rowClick", row |-> i]
    /\ UNCHANGED <<processor, services, history, simulation, mastering,
                   audioFiles, studioIsPlaying>>

\* a click on the play button of row i
PlayClick(i) ==
    /\ i \in 1..Len(audioFiles)
    /\ currentFile' = audioFiles[i]
    /\ studioIsPlaying' = ~studioIsPlaying
    /\ lastOp' = [op |-> "playClick", row |-> i]
    /\ UNCHANGED <<processor, services, history, simulation, mastering, audioFiles>>

\* Studio handleAnalyze up to its first `await new Promise(...)`: nothing
\* without a current file, else isProcessing and the first pass of the loop
studioHandleAnalyze ==
    /\ IF currentFile = Null
         THEN UNCHANGED simulation
         ELSE /\ Len(sims) < MaxSims
              /\ isProcessing' = TRUE
              /\ uploadProgress' = 0
              /\ sims' = Append(sims, [i |-> 0])
    /\ lastOp' = [op |-> "handleAnalyze", current |-> currentFile]
    /\ UNCHANGED <<processor, services, history, mastering,
                   audioFiles, currentFile, studioIsPlaying>>

\* mutant: the Analyze Track button of Studio is enabled while isProcessing
StudioAnalyzeClickWhileProcessing ==
    /\ currentFile # Null
    /\ Len(sims) < MaxSims
    /\ isProcessing' = TRUE
    /\ uploadProgress' = 0
    /\ sims' = Append(sims, [i |-> 0])
    /\ lastOp' = [op |-> "handleAnalyze", current |-> currentFile]
    /\ UNCHANGED <<processor, services, history, mastering,
                   audioFiles, currentFile, studioIsPlaying>>

\* a click on the Analyze Track button, rendered when there is a current file,
\* disabled={isProcessing}
StudioAnalyzeClick ==
    /\ currentFile # Null
    /\ ~isProcessing
    /\ studioHandleAnalyze

\* handleAnalyze called while nothing is selected and so no button is rendered
StudioAnalyzeCallWithoutFile ==
    /\ currentFile = Null
    /\ studioHandleAnalyze

\* the 200 ms timer of the k-th suspended handleAnalyze fires: i += 10 and the
\* next pass of the loop, or the finally block after the pass with i = 100
StudioTimer(k) ==
    /\ k \in 1..Len(sims)
    /\ LET i == sims[k].i + 10
       IN  IF i <= 100
             THEN /\ uploadProgress' = i
                  /\ sims' = [sims EXCEPT ![k].i = i]
                  /\ UNCHANGED isProcessing
             ELSE /\ isProcessing' = FALSE
                  /\ uploadProgress' = 0
                  /\ sims' = RemoveAt(sims, k)
    /\ UNCHANGED <<processor, studio, services, history, mastering>>

\* ----------------------------------------------------------- Mastering.tsx

\* the object spread {...prev, ...over}
Spread(prev, over) ==
    [f \in DOMAIN prev \cup DOMAIN over |->
        IF f \in DOMAIN over THEN over[f] ELSE prev[f]]

\* mutant: a preset is laid over the default settings
applyPresetOverDefaults(preset, prev) ==
    IF preset # "custom" /\ preset \in DOMAIN presetSettings
      THEN Spread(DefaultSettings, presetSettings[preset])
      ELSE prev

\* applyPreset: the settings after setSettings(prev => ...), prev itself when
\* the preset is custom or has no entry in the table
applyPreset(preset, prev) ==
    IF preset # "custom" /\ preset \in DOMAIN presetSettings
      THEN Spread(prev, presetSettings[preset])
      ELSE prev

\* onChange of the preset Select
PresetChange(value) ==
    /\ value \in presets
    /\ selectedPreset' = value
    /\ masterSettings' = applyPreset(value, masterSettings)
    /\ UNCHANGED <<processor, studio, services, history, simulation, adjusted>>

\* mutant: Reset restores a stereo width beyond the slider
resetSettingsWide ==
    /\ masterSettings' = [DefaultSettings EXCEPT !.stereoWidth = 200]
    /\ selectedPreset' = "custom"
    /\ UNCHANGED <<processor, studio, services, history, simulation, adjusted>>

\* resetSettings, the Reset button
resetSettings ==
    /\ masterSettings' = DefaultSettings
    /\ selectedPreset' = "custom"
    /\ UNCHANGED <<processor, studio, services, history, simulation, adjusted>>

\* onChange of a slider, which hands over a value between its min and max
SliderChange(field, value) ==
    /\ field \in DOMAIN SliderRange
    /\ value \in SliderRange[field].min..SliderRange[field].max
    /\ adjusted < MaxAdjust
    /\ adjusted' = adjusted + 1
    /\ masterSettings' = Spread(masterSettings, [g \in {field} |-> value])
    /\ UNCHANGED <<processor, studio, services, history, simulation, selectedPreset>>

\* onChange of a switch, e.target.checked being the opposite of what it shows
SwitchChange(field) ==
    /\ field \in Switches
    /\ adjusted < MaxAdjust
    /\ adjusted' = adjusted + 1
    /\ masterSettings' =
           Spread(masterSettings, [g \in {field} |-> ~masterSettings[field]])
    /\ UNCHANGED <<processor, studio, services, history, simulation, selectedPreset>>

\* ------------------------------------------------------------------ api.ts

\* const API_BASE_URL = process.env.REACT_APP_BACKEND_URL || 'http://localhost:8000'
API_BASE_URL ==
    IF backendUrl = Undefined \/ backendUrl = ""
      THEN "http://localhost:8000"
      ELSE backendUrl

\* if (x): an optional number is truthy when it is present and not 0
Truthy(x) == x # <<>> /\ x[1] # 0

\* Number.prototype.toString() of a non-negative integer
RECURSIVE toString10(_)
toString10(n) ==
    LET digit(k) == SubSeq("0123456789", k + 1, k + 1)
    IN  IF n < 10 THEN digit(n) ELSE toString10(n \div 10) \o digit(n % 10)

\* api.post(path, formData, ...): the instance prefixes its baseURL
ApiPost(path, formData) ==
    [url |-> [host |-> API_BASE_URL, path |-> path], form |-> formData]

\* the FormData analyzeTrack builds, as its (name, value) entries in order
AnalyzeFormData(file) == << <<"file", file>> >>

\* the FormData createTransition builds
TransitionFormData(f1, f2, settings) ==
    << <<"file1", f1>>, <<"file2", f2>>, <<"style", settings.style>> >>
      \o IF Truthy(settings.duration)
           THEN << <<"duration", toString10(settings.duration[1])>> >>
           ELSE <<>>

\* the FormData transferStyle builds
StyleFormData(file, settings) ==
    << <<"file", file>>, <<"target_style", settings.target_style>> >>
      \o IF Truthy(settings.intensity)
           THEN << <<"intensity", toString10(settings.intensity[1])>> >>
           ELSE <<>>

\* analyzeTrack(file) up to its await
analyzeTrack(file) ==
    /\ apiCall' = [fn |-> "analyzeTrack", args |-> [file |-> file],
                   request |-> ApiPost("/api/analyze/track", AnalyzeFormData(file))]
    /\ UNCHANGED <<processor, studio,
                   history, simulation, mastering, backendUrl, mockReply, served>>

\* createTransition(file1, file2, settings) up to its await
createTransition(f1, f2, settings) ==
    /\ apiCall' = [fn |-> "createTransition",
                   args |-> [file1 |-> f1, file2 |-> f2, settings |-> settings],
                   request |-> ApiPost("/api/transition/create",
                                       TransitionFormData(f1, f2, settings))]
    /\ UNCHANGED <<processor, studio,
                   history, simulation, mastering, backendUrl, mockReply, served>>

\* transferStyle(file, settings) up to its await
transferStyle(file, settings) ==
    /\ apiCall' = [fn |-> "transferStyle", args |-> [file |-> file, settings |-> settings],
                   request |-> ApiPost("/api/style/transfer", StyleFormData(file, settings))]
    /\ UNCHANGED <<processor, studio,
                   history, simulation, mastering, backendUrl, mockReply, served>>

\* ------------------------------------------------------------------ mock service

\* the resolver of rest.post('http://localhost:8000/analyze/track', ...)
MockAnalyzeHandler(req) ==
    [status |-> 200, contentType |-> "application/json", body |-> MockAnalysis]

\* mutant: the resolver answers 400 when the form carries no second file
MockTransitionHandlerValidates(req) ==
    IF \E k \in 1..Len(req.form) : req.form[k][1] = "file2"
      THEN [status |-> 200, contentType |-> "audio/wav",
            body |-> [blob |-> "mock audio data", type |-> "audio/wav"]]
      ELSE [status |-> 400, contentType |-> "audio/wav",
            body |-> [blob |-> "", type |-> "audio/wav"]]

\* the resolver of rest.post('http://localhost:8000/transition/create', ...)
MockTransitionHandler(req) ==
    [status |-> 200, contentType |-> "audio/wav",
     body |-> [blob |-> "mock audio data", type |-> "audio/wav"]]

\* the forms a POST to the mock service can carry
MockForms ==
    {<<>>}
      \cup {AnalyzeFormData(f) : f \in Files}
      \cup {TransitionFormData(f1, f2, [style |-> st, duration |-> d]) :
               f1 \in Files, f2 \in Files, st \in Styles, d \in Durations}

\* the POST requests the two handlers match
MockRequests == [method : {"POST"}, url : {AnalyzeUrl, TransitionUrl}, form : MockForms]

\* the mock service handles a request: the first handler whose method and URL
\* match resolves it
MockServe(req) ==
    /\ served < MaxServed
    /\ served' = served + 1
    /\ mockReply' = [request |-> req,
                     response |-> IF req.url = AnalyzeUrl
                                    THEN MockAnalyzeHandler(req)
                                    ELSE MockTransitionHandler(req)]
    /\ UNCHANGED <<processor, studio, history, simulation, mastering, backendUrl, apiCall>>

\* ------------------------------------------------------------------ unmount

\* the cleanup of the effect that created the widget
\* mutant: the cleanup also aborts the requests in flight
UnmountAborts ==
    /\ mounted
    /\ mounted' = FALSE
    /\ wsDestroyed' = TRUE
    /\ requests' = <<>>
    /\ UNCHANGED <<reactState, wsPlaying, wsVolume, wsMarkers, pendingLoads,
                   downloads, track, atPress, studio, services,
                   history, simulation, mastering>>

Unmount ==
    /\ mounted
    /\ mounted' = FALSE
    /\ wsDestroyed' = TRUE
    /\ UNCHANGED <<reactState, wsPlaying, wsVolume, wsMarkers, pendingLoads,
                   requests, downloads, track, atPress, studio, services,
                   history, simulation, mastering>>

\* ------------------------------------------------------------------ specifications

\* a request, or the load it triggered, settles
Settle ==
    \/ \E i \in 1..MaxInFlight, body \in Bodies : AnalyzeFulfilled(i, body)
    \/ \E i \in 1..MaxInFlight : AnalyzeRejected(i)
    \/ \E i \in 1..MaxInFlight : TransitionFulfilled(i)
    \/ \E i \in 1..MaxInFlight : TransitionRejected(i)
    \/ \E i \in 1..MaxInFlight, ok \in BOOLEAN : TransitionLoadSettled(i, ok)

\* The handlers of the request workflows. togglePlayPause and handleVolumeChange
\* are left to NextControls: they write isPlaying, volume and the widget's
\* playing flag and volume only, which no handler of Next reads.
Next ==
    \/ \E f \in Files \cup {None}, b \in BOOLEAN : handleFileChange(f, b)
    \/ \E i \in 1..MaxPendingLoads, ok \in BOOLEAN : FileLoadSettled(i, ok)
    \/ \E s \in Styles : setTransitionStyle(s)
    \/ AnalyzeClick
    \/ TransitionClick
    \/ Settle

\* the component from its mount on, while it stays mounted
Spec == Init /\ [][Next]_vars

\* every handler of the mounted component
NextControls ==
    \/ Next
    \/ togglePlayPause
    \/ \E v \in Volumes : handleVolumeChange(v)

SpecControls == Init /\ [][NextControls]_vars

\* the component from its mount to its unmount and on, until the handlers
\* suspended at the unmount have ended. Every handler is there; to keep the
\* unmounted half of the state space small, one file load fewer than
\* MaxPendingLoads is pending at a time.
NextUnmount ==
    \/ /\ Len(pendingLoads) < MaxPendingLoads - 1
       /\ \E f \in Files \cup {None}, b \in BOOLEAN : handleFileChange(f, b)
    \/ \E i \in 1..MaxPendingLoads, ok \in BOOLEAN : FileLoadSettled(i, ok)
    \/ \E s \in Styles : setTransitionStyle(s)
    \/ togglePlayPause
    \/ \E v \in Volumes : handleVolumeChange(v)
    \/ AnalyzeClick
    \/ TransitionClick
    \/ Settle
    \/ Unmount

SpecUnmount == Init /\ [][NextUnmount]_vars

\* the analysis workflow with every control that stays usable while it runs,
\* and the history of the render scope at the press
InitFrame ==
    /\ InitComponent
    /\ InitServices
    /\ track = TRUE
    /\ lastPick = [on |-> FALSE, first |-> None, second |-> None]
    /\ analysisFor = [on |-> FALSE, file |-> None]
    /\ lateCalls = [on |-> FALSE, methods |-> {}]

NextFrame ==
    \/ \E f \in Files \cup {None}, b \in BOOLEAN : handleFileChange(f, b)
    \/ \E i \in 1..MaxPendingLoads, ok \in BOOLEAN : FileLoadSettled(i, ok)
    \/ \E v \in Volumes : handleVolumeChange(v)
    \/ \E s \in Styles : setTransitionStyle(s)
    \/ AnalyzeClick
    \/ \E i \in 1..MaxInFlight, body \in Bodies : AnalyzeFulfilled(i, body)
    \/ \E i \in 1..MaxInFlight : AnalyzeRejected(i)

SpecFrame == InitFrame /\ [][NextFrame]_vars

\* the request workflows with the style left at 'smooth' (no handler tests it)
NextLive ==
    \/ \E f \in Files \cup {None}, b \in BOOLEAN : handleFileChange(f, b)
    \/ \E i \in 1..MaxPendingLoads, ok \in BOOLEAN : FileLoadSettled(i, ok)
    \/ AnalyzeClick
    \/ TransitionClick
    \/ Settle

\* the request workflows under the assumption that every request, and every
\* load a request triggers, settles
SpecLive == Init /\ [][NextLive]_vars /\ WF_vars(Settle)


\* the component from its mount to its unmount and on, with the history of
\* the widget methods called after destroy()
InitLate ==
    /\ InitComponent
    /\ InitServices
    /\ track = FALSE
    /\ lastPick = [on |-> FALSE, first |-> None, second |-> None]
    /\ analysisFor = [on |-> FALSE, file |-> None]
    /\ lateCalls = [on |-> TRUE, methods |-> {}]

SpecLate == InitLate /\ [][NextUnmount]_vars

\* the file slots and the analysis workflow, every waveform load being
\* fulfilled, with the history of the selections and of the analysed file
InitHistory ==
    /\ InitComponent
    /\ InitServices
    /\ track = FALSE
    /\ lastPick = [on |-> TRUE, first |-> None, second |-> None]
    /\ analysisFor = [on |-> TRUE, file |-> None]
    /\ lateCalls = [on |-> FALSE, methods |-> {}]

NextHistory ==
    \/ \E f \in Files \cup {None}, b \in BOOLEAN : handleFileChange(f, b)
    \/ \E i \in 1..MaxPendingLoads : FileLoadSettled(i, TRUE)
    \/ AnalyzeClick
    \/ \E i \in 1..MaxInFlight, body \in Bodies : AnalyzeFulfilled(i, body)
    \/ \E i \in 1..MaxInFlight : AnalyzeRejected(i)

SpecHistory == InitHistory /\ [][NextHistory]_vars

\* both slots hold a file, as after the two uploads of the component test
InitLoaded ==
    /\ file1 = "test1.wav"
    /\ file2 = "test2.wav"
    /\ InitOther

\* the api module loaded under any environment, next to the component
InitApi ==
    /\ InitLoaded
    /\ backendUrl \in Envs
    /\ apiCall = Null
    /\ mockReply = Null
    /\ served = 0
    /\ HistoryOff

\* calls of the functions of api.ts, and the requests of the component
NextApi ==
    \/ \E file \in Files : analyzeTrack(file)
    \/ \E f1 \in Files, f2 \in Files, st \in Styles, d \in Durations :
         createTransition(f1, f2, [style |-> st, duration |-> d])
    \/ \E file \in Files, ts \in TargetStyles, n \in Intensities :
         transferStyle(file, [target_style |-> ts, intensity |-> n])
    \/ AnalyzeClick
    \/ TransitionClick
    \/ Settle

SpecApi == InitApi /\ [][NextApi]_vars

\* the mock service
NextMock == \E req \in MockRequests : MockServe(req)

SpecMock == Init /\ [][NextMock]_vars

\* sequences over S of length 0..n
SeqsUpTo(S, n) == UNION {[1..k -> S] : k \in 0..n}

NextStudio ==
    \/ \E acceptedFiles \in SeqsUpTo(DropFiles, MaxDrop) :
         \E randoms \in [1..Len(acceptedFiles) -> Randoms] : onDrop(acceptedFiles, randoms)
    \/ \E i \in 1..MaxFiles : RemoveClick(i)
    \/ \E i \in 1..MaxFiles : RowClick(i)
    \/ \E i \in 1..MaxFiles : PlayClick(i)

\* the Studio page
SpecStudio == Init /\ [][NextStudio]_vars

\* the simulated analysis of the Studio page next to the handlers of the file
\* list, files being dropped one at a time into a list kept one shorter than
\* MaxFiles; every timer fires
NextAnalyzing ==
    \/ \E file \in DropFiles, q \in Randoms :
          Len(audioFiles) < MaxFiles - 1 /\ onDrop(<<file>>, <<q>>)
    \/ \E i \in 1..MaxFiles : RemoveClick(i)
    \/ \E i \in 1..MaxFiles : RowClick(i)
    \/ \E i \in 1..MaxFiles : PlayClick(i)
    \/ StudioAnalyzeClick
    \/ StudioAnalyzeCallWithoutFile
    \/ \E k \in 1..MaxSims : StudioTimer(k)

SpecAnalyzing ==
    Init /\ [][NextAnalyzing]_vars /\ WF_vars(\E k \in 1..MaxSims : StudioTimer(k))

\* the settings panel of the Mastering page, the sliders moved to an end
NextMastering ==
    \/ \E value \in presets : PresetChange(value)
    \/ resetSettings
    \/ \E field \in DOMAIN SliderRange :
          \E value \in {SliderRange[field].min, SliderRange[field].max} :
             SliderChange(field, value)
    \/ \E field \in Switches : SwitchChange(field)

SpecMastering == Init /\ [][NextMastering]_vars

\* ------------------------------------------------------------------ claims

\* the handling of a failed analysis request
AnalyzeFailureHandled == \E i \in 1..MaxInFlight : AnalyzeRejected(i)

\* C1 as stated: whatever happened before, once a failed analysis request
\* (HTTP 500) is handled the error message is 'Failed to analyze audio' and no
\* analysis fields are displayed.
C1_Original ==
    [][AnalyzeFailureHandled =>
         (DisplayedError' = ErrAnalyze /\ DisplayedAnalysis' = <<>>)]_vars

\* C1 amended: once a failed analysis request is handled the error message is
\* 'Failed to analyze audio' and the analysis fields displayed are those that
\* were displayed before: none when no analysis is stored, else the fields of
\* the analysis stored by the last successful request.
C1_FailureShowsMessage ==
    [][AnalyzeFailureHandled =>
         (DisplayedError' = ErrAnalyze /\ DisplayedAnalysis' = DisplayedAnalysis)]_vars

\* a failure has been handled while an earlier analysis is stored
C1_Witness ==
    /\ ~loading
    /\ DisplayedError = ErrAnalyze
    /\ DisplayedAnalysis # <<>>

\* C2 as stated: when a failed analysis request is handled, the stored
\* analysis, both file slots, the transition style, the volume and the markers
\* have the values they had when Analyze was pressed.
C2_Original ==
    [][AnalyzeFailureHandled =>
         /\ analysis' = atPress.analysis
         /\ file1' = atPress.file1
         /\ file2' = atPress.file2
         /\ transitionStyle' = atPress.transitionStyle
         /\ volume' = atPress.volume
         /\ wsMarkers' = atPress.markers]_vars

\* C2 amended: the handling of a failed analysis request changes only the
\* error message and the loading flag: the stored analysis, both file slots,
\* the style, the volume, the playing flag and the widget keep the values they
\* had just before the handling (for the analysis and the markers these are
\* the values at the press; slots, style and volume may have been changed by
\* the user while the request was in flight).
C2_FailureFrame ==
    [][AnalyzeFailureHandled =>
         /\ UNCHANGED <<analysis, file1, file2, transitionStyle, volume, isPlaying, widget>>
         /\ analysis' = atPress.analysis
         /\ wsMarkers' = atPress.markers]_vars

\* a failure has been handled in a state where every field the claim lists
\* has left its initial value
C2_Witness ==
    /\ ~loading
    /\ error = ErrAnalyze
    /\ analysis # Null
    /\ wsMarkers # <<>>
    /\ file2 # None
    /\ transitionStyle # "smooth"
    /\ volume # 100

\* C3: at most one request (analysis or transition) is in flight, and the
\* loading flag is true exactly while a request is in flight, from the press
\* to the end of the handling of its settlement.
C3_OneRequestTrackedByLoading ==
    /\ Len(requests) <= 1
    /\ loading <=> (requests # <<>>)

\* an analysis request is in flight while file loads are pending
C3_Witness ==
    /\ loading
    /\ Len(requests) = 1
    /\ requests[1].kind = "analyze"
    /\ pendingLoads # <<>>

\* a step that issues a transition request
TransitionIssued ==
    /\ Len(requests') = Len(requests) + 1
    /\ requests'[Len(requests')].kind = "transition"

\* C4: no transition request is issued while file slot 1 or file slot 2 is
\* empty: the button is disabled then, the handler returns early then, and
\* every transition request carries two files.
C4_TransitionNeedsTwoFiles ==
    /\ []((file1 = None \/ file2 = None) => TransitionDisabled)
    /\ [][TransitionIssued =>
            /\ file1 # None /\ file2 # None
            /\ requests'[Len(requests')].file1 = file1
            /\ requests'[Len(requests')].file2 = file2]_vars
    /\ [](\A i \in 1..Len(requests) :
             requests[i].kind = "transition" =>
                 requests[i].file1 \in Files /\ requests[i].file2 \in Files)

\* a transition request is in flight
C4_Witness ==
    /\ Len(requests) = 1
    /\ requests[1].kind = "transition"
    /\ requests[1].phase = "request"

\* the records of `list` whose id is not `id`, in order
RECURSIVE WithoutId(_, _)
WithoutId(list, id) ==
    IF list = <<>> THEN <<>>
    ELSE IF Head(list).id = id THEN WithoutId(Tail(list), id)
         ELSE <<Head(list)>> \o WithoutId(Tail(list), id)

\* C5: removeFile(id) takes the record with that id out of the file list (the
\* other records stay, in order); when the current selection has that id the
\* selection becomes none and isPlaying false, else both are unchanged.
C5_RemoveFile ==
    lastOp.op = "removeFile" =>
        /\ audioFiles = WithoutId(lastOp.before, lastOp.id)
        /\ \A k \in 1..Len(audioFiles) : audioFiles[k].id # lastOp.id
        /\ IF lastOp.current # Null /\ lastOp.current.id = lastOp.id
             THEN currentFile = Null /\ studioIsPlaying = FALSE
             ELSE currentFile = lastOp.current /\ studioIsPlaying = lastOp.playing

\* the current selection was removed while it was playing, other records stay
C5_Witness ==
    /\ lastOp.op = "removeFile"
    /\ lastOp.current # Null
    /\ lastOp.current.id = lastOp.id
    /\ lastOp.playing
    /\ audioFiles # <<>>

\* C6: the records of the file list have pairwise distinct identifiers.
C6_DistinctIds ==
    \A i, j \in 1..Len(audioFiles) : i # j => audioFiles[i].id # audioFiles[j].id

\* C7: a drop of n files grows the list by n; the records that were in the
\* list are unchanged and keep their order; the k-th new record follows them
\* and has the name (and the handle) of the k-th dropped file.
C7_DropAppends ==
    lastOp.op = "onDrop" =>
        LET n == Len(lastOp.files)
            m == Len(lastOp.before)
        IN  /\ Len(audioFiles) = m + n
            /\ SubSeq(audioFiles, 1, m) = lastOp.before
            /\ \A k \in 1..n :
                 /\ audioFiles[m + k].name = lastOp.files[k].name
                 /\ audioFiles[m + k].file = lastOp.files[k]

\* two different files were dropped at once on a list that held a record
C7_Witness ==
    /\ lastOp.op = "onDrop"
    /\ Len(lastOp.files) = 2
    /\ lastOp.files[1] # lastOp.files[2]
    /\ lastOp.before # <<>>

\* C8: the loading flag goes up only by a button press made while no request
\* is outstanding, goes down only by the end of the handling of the single
\* outstanding request, which leaves no request behind, and while it is up no
\* step issues a request: a press is neither accepted nor queued.
C8_IdleLoadingIdle ==
    [][/\ (~loading /\ loading') =>
            /\ requests = <<>> /\ Len(requests') = 1
            /\ AnalyzeClick \/ TransitionClick
       /\ (loading /\ ~loading') =>
            /\ Len(requests) = 1 /\ requests' = <<>>
            /\ Settle
            /\ error' \in {None, ErrAnalyze, ErrTransition}
       /\ loading => Len(requests') <= Len(requests)
       /\ loading => ~ENABLED AnalyzeClick /\ ~ENABLED TransitionClick]_vars

\* back in Idle through Error, with both buttons enabled again
C8_Witness ==
    /\ ~loading
    /\ requests = <<>>
    /\ error = ErrTransition
    /\ ~AnalyzeDisabled
    /\ ~TransitionDisabled

\* C9: whenever a request has been started, the loading flag eventually
\* becomes false again, given that the request and the load it triggers settle.
C9_LoadingEnds == (loading \/ requests # <<>>) ~> ~loading

\* the transition workflow waits for the load of the blob it received
C9_Witness ==
    /\ loading
    /\ Len(requests) = 1
    /\ requests[1].phase = "load"

\* C10: a successful analysis request stores the response body, the displayed
\* fields are derived from it (key and scale, tempo with one decimal, energy
\* and spectral centroid with two decimals); for the mock body they read
\* 'Key: C major' and 'Tempo: 120.0 BPM'.
C10_SuccessShowsBody ==
    /\ [][\A i \in 1..MaxInFlight, body \in Bodies :
             AnalyzeFulfilled(i, body) =>
                 analysis' = body /\ DisplayedAnalysis' = AnalysisFields(body)]_vars
    /\ [](analysis = MockAnalysis =>
             DisplayedAnalysis = <<"Key: C major", "Tempo: 120.0 BPM",
                                   "Energy: 0.80", "Spectral Centroid: 2000.00 Hz">>)
    /\ [](analysis = OtherAnalysis =>
             DisplayedAnalysis = <<"Key: A minor", "Tempo: 128.5 BPM",
                                   "Energy: 0.31", "Spectral Centroid: 1523.12 Hz">>)

\* the mock body has been stored and the request is over
C10_Witness ==
    /\ ~loading
    /\ error = None
    /\ analysis = MockAnalysis

\* C11: a download of 'transition.wav' is triggered exactly once for each
\* transition request that succeeds and for no transition request that fails,
\* and a failed transition request sets the error to 'Failed to create
\* transition'. (A request whose handler waits for the load of the blob has
\* been answered 2xx.)
C11_DownloadPerSuccess ==
    /\ [][\A i \in 1..MaxInFlight, ok \in BOOLEAN :
             TransitionLoadSettled(i, ok) => downloads' = downloads + 1]_vars
    /\ [][\A i \in 1..MaxInFlight :
             TransitionRejected(i) =>
                 downloads' = downloads /\ error' = ErrTransition]_vars
    /\ [][downloads' # downloads =>
             \E i \in 1..MaxInFlight : TransitionLoadSettled(i, TRUE)]_vars

\* C12: each press of Analyze Track or Create Transition posts exactly one
\* request, requests are posted by presses only, no request is posted a second
\* time, and the failure of a request ends its handler without a new request.
C12_OnePostPerPress ==
    /\ [][(AnalyzeClick \/ TransitionClick) =>
             /\ Len(requests') = Len(requests) + 1
             /\ SubSeq(requests', 1, Len(requests)) = requests
             /\ requests'[Len(requests')].posts = 1]_vars
    /\ [][Len(requests') > Len(requests) => (AnalyzeClick \/ TransitionClick)]_vars
    /\ [](\A i \in 1..Len(requests) : requests[i].posts = 1)
    /\ [][\A i \in 1..MaxInFlight :
             (AnalyzeRejected(i) \/ TransitionRejected(i)
                 \/ TransitionLoadSettled(i, FALSE)) =>
                 requests' = RemoveAt(requests, i)]_vars

\* a transition request has failed and nothing is in flight: the next request
\* waits for the next press
C12_Witness ==
    /\ error = ErrTransition
    /\ requests = <<>>
    /\ ~loading
    /\ downloads = 0
    /\ analysis = Null

\* C13: a request once sent stays in flight until it settles. No step other
\* than its settlement (file selection, style, volume, play/pause, unmount,
\* another press) removes or changes it; its settlement stays possible, also
\* after the unmount, and the handler then still runs: markers are added and
\* the download is triggered.
C13_RequestsRunToSettlement ==
    /\ [][(\/ requests' = requests
           \/ /\ Len(requests') = Len(requests) + 1
              /\ SubSeq(requests', 1, Len(requests)) = requests)
          \/ Settle]_vars
    /\ [](\A i \in 1..Len(requests) :
             IF requests[i].kind = "analyze"
               THEN /\ ENABLED (\E body \in Bodies : AnalyzeFulfilled(i, body))
                    /\ ENABLED AnalyzeRejected(i)
               ELSE IF requests[i].phase = "request"
                      THEN ENABLED TransitionFulfilled(i) /\ ENABLED TransitionRejected(i)
                      ELSE /\ ENABLED TransitionLoadSettled(i, TRUE)
                           /\ ENABLED TransitionLoadSettled(i, FALSE))
    /\ [][\A i \in 1..MaxInFlight, body \in Bodies :
             (~mounted /\ AnalyzeFulfilled(i, body)) =>
                 wsMarkers' = wsMarkers \o body.beats]_vars
    /\ [][\A i \in 1..MaxInFlight :
             (~mounted /\ TransitionLoadSettled(i, TRUE)) =>
                 downloads' = downloads + 1]_vars

\* a request was in flight at the unmount and has settled since: the flag it
\* set stays, the markers of its response are on the widget
C13_Witness ==
    /\ ~mounted
    /\ loading
    /\ requests = <<>>
    /\ analysis = Null
    /\ wsMarkers = MockAnalysis.beats

\* C14: while a request of the mounted component is in flight, file selection
\* for either slot, play/pause, volume change and style selection stay enabled
\* and take effect, and the Analyze Track and Create Transition buttons are
\* disabled.
C14_ControlsStayEnabled ==
    /\ []((mounted /\ requests # <<>>) =>
             /\ AnalyzeDisabled
             /\ TransitionDisabled
             /\ ENABLED togglePlayPause
             /\ \A v \in Volumes \ {volume} : ENABLED handleVolumeChange(v)
             /\ \A s \in Styles \ {transitionStyle} : ENABLED setTransitionStyle(s)
             /\ \A b \in BOOLEAN : ENABLED handleFileChange(None, b)
             /\ Len(pendingLoads) < MaxPendingLoads =>
                    \A f \in Files, b \in BOOLEAN : ENABLED handleFileChange(f, b)
             /\ \A i \in 1..Len(pendingLoads) : ENABLED FileLoadSettled(i, TRUE))
    /\ [][(requests # <<>> /\ togglePlayPause) =>
             isPlaying' = ~isPlaying /\ wsPlaying' = ~wsPlaying]_vars
    /\ [][\A v \in Volumes : (requests # <<>> /\ handleVolumeChange(v)) =>
             volume' = v /\ wsVolume' = v]_vars
    /\ [][\A s \in Styles : (requests # <<>> /\ setTransitionStyle(s)) =>
             transitionStyle' = s]_vars
    /\ [][\A f \in Files, b \in BOOLEAN : (requests # <<>> /\ handleFileChange(f, b)) =>
             pendingLoads' = Append(pendingLoads, [file |-> f, isFirst |-> b])]_vars
    /\ [][\A i \in 1..MaxPendingLoads :
             (mounted /\ requests # <<>> /\ FileLoadSettled(i, TRUE)) =>
                 IF pendingLoads[i].isFirst
                   THEN file1' = pendingLoads[i].file
                   ELSE file2' = pendingLoads[i].file]_vars

\* a transition request is in flight; since the press the style was changed,
\* the volume turned down, playback started and another file selected
C14_Witness ==
    /\ mounted
    /\ Len(requests) = 1
    /\ requests[1].kind = "transition"
    /\ requests[1].style # transitionStyle
    /\ requests[1].file2 # file2
    /\ volume = 0 /\ wsVolume = 0
    /\ isPlaying
    /\ pendingLoads # <<>>

\* C15: every request of the analysis, transition and style-transfer
\* workflows, posted by a function of api.ts or by the component, goes to the
\* host REACT_APP_BACKEND_URL names, and to http://localhost:8000 when the
\* variable is not set (an empty value counted as not set).
C15_RequestsGoToBackendUrl ==
    LET host == IF backendUrl \in {Undefined, ""}
                  THEN "http://localhost:8000"
                  ELSE backendUrl
    IN  /\ apiCall # Null => apiCall.request.url.host = host
        /\ \A i \in 1..Len(requests) : requests[i].url.host = host

\* C16: the form createTransition(file1, file2, settings) posts holds file1,
\* file2 and style = settings.style, and holds duration exactly when settings
\* carries a duration, 0 included, its value being the decimal string of it.
C16_DurationSentWhenGiven ==
    (apiCall # Null /\ apiCall.fn = "createTransition") =>
        LET form == apiCall.request.form
            a == apiCall.args
        IN  /\ Len(form) >= 3
            /\ SubSeq(form, 1, 3) = << <<"file1", a.file1>>, <<"file2", a.file2>>,
                                       <<"style", a.settings.style>> >>
            /\ IF a.settings.duration # <<>>
                 THEN /\ Len(form) = 4
                      /\ form[4] = <<"duration", ToString(a.settings.duration[1])>>
                 ELSE Len(form) = 3

\* C18: the mock service is deterministic. Every POST /analyze/track is
\* answered 200 with the same JSON body and every POST /transition/create is
\* answered 200 with the same audio/wav blob, whatever the request carries and
\* whatever was handled before.
C18_MockAnswersFixed ==
    mockReply # Null =>
        IF mockReply.request.url = AnalyzeUrl
          THEN mockReply.response =
                 [status |-> 200, contentType |-> "application/json",
                  body |-> [beats |-> <<500, 1000, 1500, 2000>>, key |-> "C",
                            scale |-> "major", tempo |-> 120000, energy |-> 800,
                            spectral_centroid |-> 2000000]]
          ELSE mockReply.response =
                 [status |-> 200, contentType |-> "audio/wav",
                  body |-> [blob |-> "mock audio data", type |-> "audio/wav"]]

\* the second request handled is a POST /transition/create with an empty form
C18_Witness ==
    /\ served = 2
    /\ mockReply # Null
    /\ mockReply.request.url = TransitionUrl
    /\ mockReply.request.form = <<>>
    /\ mockReply.response.status = 200

\* C17: the stored analysis changes only when a successful analysis response
\* is handled, and then becomes that response's body as a whole; no step puts
\* it back to empty.
C17_AnalysisReplacedOnly ==
    /\ [][analysis' # analysis =>
             \E i \in 1..MaxInFlight, body \in Bodies :
                 AnalyzeFulfilled(i, body) /\ analysis' = body]_vars
    /\ [][analysis # Null => analysis' # Null]_vars

\* the body of a second analysis has replaced the mock body (whose markers are
\* on the widget) and has outlasted a failed transition and a volume change
C17_Witness ==
    /\ analysis = OtherAnalysis
    /\ wsMarkers = MockAnalysis.beats
    /\ error = ErrTransition
    /\ volume = 0
    /\ ~loading

\* C19: the error is always none, 'Failed to analyze audio' or 'Failed to
\* create transition'; it becomes a message only when the request of the
\* workflow the message names fails; every press of a request button resets it
\* to none.
C19_ErrorOnlyByRequestFailure ==
    /\ [](error \in {None, ErrAnalyze, ErrTransition})
    /\ [][(error' # error /\ error' # None) =>
             \E i \in 1..MaxInFlight :
                 \/ AnalyzeRejected(i) /\ error' = ErrAnalyze
                 \/ TransitionRejected(i) /\ error' = ErrTransition]_vars
    /\ [][(AnalyzeClick \/ TransitionClick) => error' = None]_vars

\* C20: a selected file is stored in its slot only when the widget has loaded
\* it: a slot changes only at the fulfilment of the load of a file selected
\* for it, to that file. The selection itself, an empty selection and a
\* rejected load leave both slots, and so both request buttons, as they were.
C20_SlotSetAfterLoad ==
    /\ [][file1' # file1 =>
             \E i \in 1..MaxPendingLoads :
                 /\ FileLoadSettled(i, TRUE)
                 /\ pendingLoads[i].isFirst
                 /\ file1' = pendingLoads[i].file]_vars
    /\ [][file2' # file2 =>
             \E i \in 1..MaxPendingLoads :
                 /\ FileLoadSettled(i, TRUE)
                 /\ ~pendingLoads[i].isFirst
                 /\ file2' = pendingLoads[i].file]_vars
    /\ [][\A i \in 1..MaxPendingLoads :
             FileLoadSettled(i, FALSE) =>
                 /\ file1' = file1 /\ file2' = file2
                 /\ AnalyzeDisabled' = AnalyzeDisabled
                 /\ TransitionDisabled' = TransitionDisabled]_vars
    /\ [][\A f \in Files \cup {None}, b \in BOOLEAN :
             handleFileChange(f, b) => file1' = file1 /\ file2' = file2]_vars

\* the second file has been selected and is still loading: its slot is empty
\* and Create Transition is disabled
C20_Witness ==
    /\ file1 = "test1.wav"
    /\ file2 = None
    /\ pendingLoads = <<[file |-> "test2.wav", isFirst |-> FALSE]>>
    /\ ~loading
    /\ TransitionDisabled

\* C21: a successful analysis adds one marker per beat of the response, in
\* order, and the markers on the waveform are then the beats of that response:
\* markers of earlier analyses do not remain.
C21_MarkersAreLatestBeats ==
    [][\A i \in 1..MaxInFlight, body \in Bodies :
          AnalyzeFulfilled(i, body) => wsMarkers' = body.beats]_vars

\* C22: the transition style is smooth at first and always one of smooth,
\* sudden, harmonic; a transition request carries the two files and the style
\* selected at the press, and no later selection of a file or a style changes
\* a request in flight.
C22_RequestCarriesPressState ==
    /\ transitionStyle = "smooth"
    /\ [](transitionStyle \in Styles)
    /\ [][TransitionClick =>
             LET r == requests'[Len(requests')]
             IN  /\ Len(requests') = Len(requests) + 1
                 /\ r.kind = "transition"
                 /\ r.file1 = file1 /\ r.file2 = file2
                 /\ r.style = transitionStyle]_vars
    /\ [][\A i \in 1..Len(requests) :
             (\/ \E f \in Files \cup {None}, b \in BOOLEAN : handleFileChange(f, b)
              \/ \E k \in 1..MaxPendingLoads, ok \in BOOLEAN : FileLoadSettled(k, ok)
              \/ \E st \in Styles : setTransitionStyle(st)) =>
                 /\ Len(requests') = Len(requests)
                 /\ requests'[i].file1 = requests[i].file1
                 /\ requests'[i].file2 = requests[i].file2
                 /\ requests'[i].style = requests[i].style]_vars

\* a harmonic transition of the two files pressed is in flight; since the press
\* the style was set to sudden and slot 1 was given another file
C22_Witness ==
    /\ Len(requests) = 1
    /\ requests[1].kind = "transition"
    /\ requests[1].style = "harmonic"
    /\ transitionStyle = "sudden"
    /\ requests[1].file1 = "test1.wav"
    /\ file1 = "test2.wav"

\* C23: when no load is pending for a slot, the slot holds the file selected
\* last for it, in whatever order the loads of the selections were fulfilled.
C23_SlotHoldsLastPick ==
    /\ (lastPick.first # None
          /\ \A i \in 1..Len(pendingLoads) : ~pendingLoads[i].isFirst)
        => file1 = lastPick.first
    /\ (lastPick.second # None
          /\ \A i \in 1..Len(pendingLoads) : pendingLoads[i].isFirst)
        => file2 = lastPick.second

\* C24: whenever an analysis is displayed and no analysis request is in
\* flight, the analysis stored is the response to a request for the file that
\* slot 1 holds.
C24_AnalysisOfCurrentFile ==
    (analysis # Null /\ requests = <<>>) => analysisFor.file = file1

\* C25: once the component is unmounted and its widget destroyed, no method
\* of the widget is called any more, also when a file load or a request
\* started before the unmount settles afterwards.
C25_NoCallAfterDestroy == lateCalls.methods = {}

\* C26: in Studio the current selection, when there is one, is a record of the
\* file list, and isPlaying is true only when there is a current selection.
C26_SelectionInList ==
    /\ currentFile # Null => \E k \in 1..Len(audioFiles) : audioFiles[k] = currentFile
    /\ studioIsPlaying => currentFile # Null

\* another record than the playing selection was removed: the selection stays
C26_Witness ==
    /\ lastOp.op = "removeFile"
    /\ currentFile # Null
    /\ currentFile.id # lastOp.id
    /\ studioIsPlaying
    /\ Len(audioFiles) < Len(lastOp.before)

\* C27: Studio handleAnalyze does nothing without a current file; pressed
\* with one, it steps the progress through 0, 10, ..., 100 and then ends with
\* isProcessing false and progress 0. Progress is 0 whenever isProcessing is
\* false and at most one simulated analysis runs, also when the current file
\* is removed or changed meanwhile.
C27_OneSimulatedAnalysis ==
    /\ [](~isProcessing => uploadProgress = 0)
    /\ [](Len(sims) <= 1)
    /\ [](isProcessing <=> sims # <<>>)
    /\ [](sims # <<>> => uploadProgress = sims[1].i)
    /\ [][StudioAnalyzeCallWithoutFile => UNCHANGED simulation]_vars
    /\ [][StudioAnalyzeClick =>
             isProcessing' /\ uploadProgress' = 0 /\ sims' = <<[i |-> 0]>>]_vars
    /\ [][\A k \in 1..MaxSims : StudioTimer(k) =>
             IF uploadProgress < 100
               THEN isProcessing' /\ uploadProgress' = uploadProgress + 10
               ELSE ~isProcessing' /\ uploadProgress' = 0 /\ sims' = <<>>]_vars
    /\ [][uploadProgress' # uploadProgress =>
             \E k \in 1..MaxSims : StudioTimer(k)]_vars
    /\ (isProcessing ~> ~isProcessing)

\* the analysis has reached 100 after its file was removed from the list
C27_Witness ==
    /\ isProcessing
    /\ uploadProgress = 100
    /\ currentFile = Null
    /\ audioFiles = <<>>

\* C28: on the Mastering page every numeric setting stays within the range of
\* its slider after any preset selections, resets, slider and switch changes:
\* loudness in [-30,-6], dynamicRange in [2,20], compression, limiting,
\* lowEndTightness, midPresence and highEndBrightness in [0,100], stereoWidth
\* in [0,150], saturation in [0,50].
C28_SettingsWithinSliders ==
    /\ masterSettings.loudness \in -30..-6
    /\ masterSettings.dynamicRange \in 2..20
    /\ masterSettings.compression \in 0..100
    /\ masterSettings.limiting \in 0..100
    /\ masterSettings.lowEndTightness \in 0..100
    /\ masterSettings.midPresence \in 0..100
    /\ masterSettings.highEndBrightness \in 0..100
    /\ masterSettings.stereoWidth \in 0..150
    /\ masterSettings.saturation \in 0..50

\* a preset chosen after two sliders were moved to an end
C28_Witness ==
    /\ selectedPreset = "loud"
    /\ masterSettings.loudness = -10
    /\ masterSettings.stereoWidth = 150
    /\ masterSettings.lowEndTightness = 0

\* C29: applyPreset of a named preset overwrites exactly the fields the preset
\* lists and leaves every other field as it was, applyPreset('custom') changes
\* nothing, and applying a preset twice gives what applying it once gives.
C29_PresetFrame ==
    /\ [](\A p \in presets :
            LET next == applyPreset(p, masterSettings)
            IN  /\ DOMAIN next = DOMAIN masterSettings
                /\ p = "custom" => next = masterSettings
                /\ p # "custom" =>
                      \A f \in DOMAIN masterSettings :
                         next[f] = IF f \in DOMAIN presetSettings[p]
                                     THEN presetSettings[p][f]
                                     ELSE masterSettings[f]
                /\ applyPreset(p, next) = next)
    /\ [][\A p \in presets :
             PresetChange(p) => masterSettings' = applyPreset(p, masterSettings)]_vars

\* streaming chosen after vinyl, cd and loud with no slider or switch touched:
\* vintage, multiband and the saturation of loud are kept
C29_Witness ==
    /\ adjusted = 0
    /\ selectedPreset = "streaming"
    /\ masterSettings.loudness = -14
    /\ masterSettings.compression = 40
    /\ masterSettings.vintage
    /\ masterSettings.multiband
    /\ masterSettings.saturation = 25

====
